---- MODULE Spec2Model ----
(***************************************************************************)
(* Model of stat-benchmark (src/stat-benchmark/stat-benchmark.cxx): one    *)
(* invocation of main(), from the parsing of argv to the exit status.      *)
(* Both builds of the program are modelled: the _WIN32 build (stat: attrs, *)
(* attrs_ex, handle; iter: posix, native, native_ex) and the POSIX build   *)
(* (stat: stat; iter: opendir).  The host (file system, list file, clock)  *)
(* answers every call nondeterministically from small sets.                *)
(***************************************************************************)
EXTENDS Integers, Sequences, FiniteSets, TLC

VARIABLES
  win32,        \* the _WIN32 build (TRUE) or the POSIX build (FALSE)
  argv,         \* argv[1..], consumed by the parsing
  pc,           \* position of main()
  c,            \* enum class cmd
  st,           \* enum class cmd_stat
  it,           \* enum class cmd_iter
  print,        \* unsigned long print
  print_result, \* bool print_result
  file,         \* the lines of the list file (stat), each the kind of path it names
  read,         \* the number of lines getline has extracted from f
  f,            \* ifstream f: the handle of the open list file, 0 when none
  count,        \* size_t count
  stack,        \* the activations of the iterate lambda, innermost last
  handles,      \* per host handle ever opened, how many times it was closed
  clock,        \* the host clock (system_clock::now ())
  start_time,   \* timestamp start_time
  end_time,     \* timestamp end_time
  tree,         \* the entries the host has returned so far (parent, dir flag)
  trace,        \* the calls and steps performed so far, in order
  cout,         \* what was written to cout
  report,       \* the "times mismatch" diagnostic written to cerr
  stats,        \* the statistics written to cerr
  divisors,     \* the divisors of the divisions performed
  fatal,        \* the fatal condition that occurred, "none" when none
  spins,        \* loop iterations that changed nothing (counted modulo)
  status,       \* the exit status, NoStatus while running
  fcall,        \* the arguments of a call of to_stream ()
  fos           \* ostream& os of that call: what was written, and its state

vars == <<win32, argv, pc, c, st, it, print, print_result, file, read, f,
          count,
          stack, handles, clock, start_time, end_time, tree, trace, cout,
          report, stats, divisors, fatal, spins, status, fcall, fos>>

----------------------------------------------------------------------------
(* Bounds of the model. *)

MaxEntries == 3   \* entries (other than "." and "..") the host returns in a walk
MaxLines   == 3   \* lines of the list file
MaxSpin    == 1   \* counted iterations of a loop that changes nothing

----------------------------------------------------------------------------
(* timestamp: ticks of system_clock; the three special values. *)

timestamp_unknown     == 0 - 1
timestamp_nonexistent == 0
timestamp_unreal      == 1

\* Real times the host reports (ticks well away from the special values).
HostTimes == {5, 6}

entry_time(m, a) == [modification |-> m, access |-> a]

NoStatus == 0 - 1

\* The status of a process ended by std::terminate (SIGABRT) and by SIGFPE.
StatusAbort == 128 + 6
StatusTrap  == 128 + 8

----------------------------------------------------------------------------
(* The command line.  argv[0] is left out: argc = Len(argv) + 1 and the    *)
(* C++ argv[k] is argv[k] here.                                            *)

argc(a) == Len(a) + 1

\* The selectors each build accepts (the two option loops of main).
StatSelectors(w) == IF w THEN {"-a", "-e", "-h"} ELSE {"-s"}
IterSelectors(w) == IF w THEN {"-p", "-n", "-N"} ELSE {"-o"}

\* The value sst()/sit() store for a selector.
Selected(v) ==
  CASE v = "-a" -> "attrs"
    [] v = "-e" -> "attrs_ex"
    [] v = "-h" -> "handle"
    [] v = "-s" -> "stat"
    [] v = "-p" -> "posix"
    [] v = "-n" -> "native"
    [] v = "-N" -> "native_ex"
    [] v = "-o" -> "opendir"
    [] OTHER    -> "none"

\* std::stoul: the strings it converts, and the values.  Any other string
\* makes it throw std::invalid_argument.
Numerals == {"0", "1", "2", "6"}
stoul(s) ==
  CASE s = "0" -> 0
    [] s = "1" -> 1
    [] s = "2" -> 2
    [] s = "6" -> 6

\* The option loop: from argv[i], with the options parsed so far in o.
\* kind is "ok" (the loop ended, at index i), "usage" (usage () was called)
\* or "stoul" (stoul threw).
RECURSIVE ParseOptions(_, _, _, _)
ParseOptions(w, a, i, o) ==
  IF i = argc(a) THEN [o EXCEPT !.i = i]
  ELSE LET v == a[i] IN
    IF v \in StatSelectors(w)
      THEN IF o.st # "none" THEN [o EXCEPT !.kind = "usage"]
           ELSE ParseOptions(w, a, i + 1, [o EXCEPT !.st = Selected(v)])
    ELSE IF v \in IterSelectors(w)
      THEN IF o.it # "none" THEN [o EXCEPT !.kind = "usage"]
           ELSE ParseOptions(w, a, i + 1, [o EXCEPT !.it = Selected(v)])
    ELSE IF v = "-P"
      THEN IF i + 1 = argc(a) THEN [o EXCEPT !.kind = "usage"]
           ELSE IF a[i + 1] \notin Numerals THEN [o EXCEPT !.kind = "stoul"]
           ELSE ParseOptions(w, a, i + 2, [o EXCEPT !.print = stoul(a[i + 1])])
    ELSE IF v = "-r"
      THEN ParseOptions(w, a, i + 1, [o EXCEPT !.print_result = TRUE])
    ELSE [o EXCEPT !.i = i]

NoOptions ==
  [kind |-> "ok", i |-> 0, st |-> "none", it |-> "none", print |-> 0,
   print_result |-> FALSE]

\* The first argument: enum class cmd.
Command(a) ==
  IF a[1] \in {"stat", "iter", "avg"} THEN a[1] ELSE "none"

\* The command lines the model starts from.
SelectorLists(w) ==
  {<<>>} \cup {<<x>> : x \in StatSelectors(w) \cup IterSelectors(w)}
         \cup {<<x, y>> : x \in IterSelectors(w), y \in StatSelectors(w)}
         \cup {<<x, x>> : x \in {"-s", "-e", "-o", "-n"} \cap
                                 (StatSelectors(w) \cup IterSelectors(w))}
PrintLists  == {<<>>, <<"-P", "1">>, <<"-P", "2">>, <<"-P", "x">>, <<"-r">>}
TailLists   == {<<"path">>, <<"-P">>, <<"path", "extra">>, <<>>}
AvgLists    == {<<"avg">>, <<"avg", "6", "2">>, <<"avg", "6", "0">>,
                <<"avg", "6", "x">>, <<"avg", "6", "2", "1">>}

ArgvSet(w) ==
  {<<>>, <<"bogus", "path">>} \cup AvgLists \cup
  {<<"iter">> \o s \o p \o t :
     s \in SelectorLists(w), p \in PrintLists, t \in TailLists} \cup
  {<<"stat">> \o s \o p \o t :
     s \in {<<>>, <<"-o", "-s">>, <<"-a", "-e">>} \cup
           {<<x>> : x \in StatSelectors(w)},
     p \in {<<>>, <<"-r">>, <<"-P", "x">>}, t \in TailLists}

----------------------------------------------------------------------------
(* Host handles (DIR*, HANDLE, the intptr_t of _findfirst, the file of the *)
(* ifstream).  handles[h] counts the closes of handle h; 0 stands for      *)
(* nullptr / INVALID_HANDLE_VALUE / -1 / a stream that is not open.        *)

Opened(hs)   == Append(hs, 0)
NewHandle(hs) == Len(hs) + 1
Closed(hs, h) == [hs EXCEPT ![h] = @ + 1]
OpenHandles  == {h \in DOMAIN handles : handles[h] = 0}

\* One step of the program, as recorded in trace.
Ev(op, x) == [op |-> op, x |-> x]

----------------------------------------------------------------------------
(* The metadata query: entry_tm.  The host's answer to the query of a path *)
(* is "ok" with the two times, "missing" (ENOENT, ENOTDIR, the Windows     *)
(* not-found codes), "error" (any other failure) or, for the handle        *)
(* mechanism, "infoerr" (CreateFile succeeded, GetFileInformationByHandle  *)
(* failed).                                                                *)

HostOk == {[k |-> "ok", t |-> entry_time(m, a)] : m \in HostTimes, a \in HostTimes}
NoTimes == entry_time(timestamp_unknown, timestamp_unknown)
HostMissing == [k |-> "missing", t |-> NoTimes]
HostError   == [k |-> "error", t |-> NoTimes]
HostInfoErr == [k |-> "infoerr", t |-> NoTimes]

\* The paths a list file names, and what the host answers for each.
Paths == {"exists", "missing", "denied"}
HostAnswers(s, path) ==
  CASE path = "exists"  -> HostOk
    [] path = "missing" -> {HostMissing}
    [] path = "denied"  -> IF s = "handle" THEN {HostError, HostInfoErr}
                           ELSE {HostError}

\* What entry_tm does with the host's answer: it returns an entry_time
\* ("ret") or throws failed ("throw"); opened tells whether it opened a
\* handle (auto_handle h), which it then closes on both ways out.
entry_tm(s, ans) ==
  CASE s = "stat" ->
         IF ans.k = "ok" THEN [r |-> "ret", et |-> ans.t, opened |-> FALSE]
         ELSE IF ans.k = "missing"
           THEN [r |-> "ret", opened |-> FALSE,
                 et |-> entry_time(timestamp_nonexistent, timestamp_nonexistent)]
         ELSE [r |-> "throw", et |-> NoTimes, opened |-> FALSE]
    [] s = "attrs" ->
         IF ans.k = "ok"
           THEN [r |-> "ret", opened |-> FALSE,
                 et |-> entry_time(timestamp_nonexistent, timestamp_nonexistent)]
         ELSE [r |-> "throw", et |-> NoTimes, opened |-> FALSE]
    [] s = "attrs_ex" ->
         IF ans.k = "ok" THEN [r |-> "ret", et |-> ans.t, opened |-> FALSE]
         ELSE [r |-> "throw", et |-> NoTimes, opened |-> FALSE]
    [] s = "handle" ->
         IF ans.k = "ok" THEN [r |-> "ret", et |-> ans.t, opened |-> TRUE]
         ELSE IF ans.k = "infoerr"
           THEN [r |-> "throw", et |-> NoTimes, opened |-> TRUE]
         ELSE [r |-> "throw", et |-> NoTimes, opened |-> FALSE]

\* auto_handle: the handle entry_tm opened is closed by ~auto_handle
\* (reset ()) when entry_tm is left, by return or by throw.
auto_handle_reset(hs, h) == IF h # 0 THEN Closed(hs, h) ELSE hs
HandlesAfterQuery(hs, res) ==
  IF res.opened THEN auto_handle_reset(Opened(hs), NewHandle(hs)) ELSE hs
QueryEvents(hs, res, x) ==
  IF res.opened
    THEN <<Ev("query", x), Ev("open", NewHandle(hs)), Ev("close", NewHandle(hs))>>
    ELSE <<Ev("query", x)>>

----------------------------------------------------------------------------
(* to_stream: the formatters of timestamp and duration.                    *)

\* A character is a string of length 1; a C string is a sequence of them.
\* ostream& os: the items written, in order, and whether the stream is
\* still good.  An item is text the formatter wrote itself ("os") or a
\* fragment it handed to put_time () ("put_time").
Stream(out, good) == [out |-> out, good |-> good]
NoStream == Stream(<<>>, TRUE)

\* A time_point (and a duration) of system_clock is a count of nanosecond
\* ticks too large for the model's integers: it is held as whole seconds
\* and the nanoseconds above them (0 .. 10^9 - 1), as struct timespec does.
time_point(sec, nsec) == [sec |-> sec, nsec |-> nsec]

\* The time_point of a small tick count (the three special values).
Timestamp(x) ==
  IF x < 0 THEN time_point(0 - 1, 10^9 + x) ELSE time_point(0, x)

\* system_clock::to_time_t: duration_cast<seconds> truncates toward zero.
to_time_t(ts) == IF ts.sec < 0 /\ ts.nsec # 0 THEN ts.sec + 1 ELSE ts.sec

\* duration_cast<nanoseconds> (ts - system_clock::from_time_t (t)).
nanoseconds(ts) ==
  IF ts.sec < 0 /\ ts.nsec # 0 THEN ts.nsec - 10^9 ELSE ts.nsec

\* os << dec << v: the decimal digits of v, '-' first when v is negative.
Digit(d) == <<"0", "1", "2", "3", "4", "5", "6", "7", "8", "9">>[d + 1]
RECURSIVE Dec(_)
Dec(v) ==
  IF v < 0 THEN <<"-">> \o Dec(0 - v)
  ELSE IF v < 10 THEN <<Digit(v)>>
  ELSE Append(Dec(v \div 10), Digit(v % 10))

\* os << right << setw (w) with fill character fc: text shorter than w is
\* filled on the left, longer text is written whole.
setw(w, fc, text) ==
  IF Len(text) >= w THEN text ELSE [k \in 1 .. w - Len(text) |-> fc] \o text

\* os << x: nothing is written to a stream that is not good.
Insert(os, k, text) ==
  IF os.good THEN Stream(Append(os.out, [k |-> k, v |-> text]), TRUE) ELSE os

\* os << put_time (&tm, fmt + i): the host formats the fragment, or fails
\* and sets the stream's state (strftime () == 0, or a stream not good).
put_time(os, chunk, host) ==
  IF host = "badput" THEN Stream(os.out, FALSE)
  ELSE Insert(os, "put_time", chunk)

\* The arguments of a call of to_stream, and what the call finds: the
\* width of os, whether the host converts the time and formats the
\* fragments (host), and whether the build is _WIN32 with __GLIBCXX__.
Call(fn, ts, format, special, local, ns, width, host, mingw) ==
  [fn |-> fn, ts |-> ts, format |-> format, special |-> special,
   local |-> local, ns |-> ns, width |-> width, host |-> host,
   mingw |-> mingw]
NoCall ==
  Call("none", time_point(0, 0), <<>>, FALSE, FALSE, FALSE, 0, "ok", FALSE)

\* char fmt[256].
FmtSize == 256

\* fmt[j] with the 0-based index of the code.
At(format, j) == format[j + 1]

\* The print lambda: the fragment fmt[i .. j) goes to put_time ().  ok is
\* its return value.
print_fragment(call, i, j, os) ==
  IF i # j
    THEN LET os1 == put_time(os, SubSeq(call.format, i + 1, j), call.host)
         IN [ok |-> os1.good, os |-> os1]
    ELSE [ok |-> TRUE, os |-> os]

Return(os)  == [r |-> "ret", os |-> os]
Failed(os)  == [r |-> "throw", os |-> os]

\* The loop for (; j != n; ++j) of to_stream (timestamp), from its state
\* (i, j, os), with the directive %[<d>N] parsed from the character after
\* '[' by directive.
RECURSIVE scan(_, _, _, _)
RECURSIVE directive(_, _, _)
\* (Variant of directive: the closing ']' is not asked for.)
directive_open(call, j, os) ==
  LET n  == Len(call.format)
      ns == nanoseconds(call.ts)
  IN
  IF j = n THEN Failed(os)
  ELSE LET d  == IF At(call.format, j) # "N" THEN <<At(call.format, j)>>
                 ELSE <<>>
           jn == IF At(call.format, j) # "N" THEN j + 1 ELSE j
       IN
       IF jn = n \/ At(call.format, jn) # "N" THEN Failed(os)
       ELSE LET os1 == IF ns # 0 /\ d # <<>> THEN Insert(os, "os", d) ELSE os
                os2 == IF ns # 0
                         THEN Insert(os1, "os", setw(9, "0", Dec(ns)))
                         ELSE os1
                je  == IF jn + 1 = n THEN n ELSE jn + 2
            IN scan(call, je, je, os2)

\* The directive, from the character after '[': an optional separator d,
\* 'N' and ']'; the nanoseconds are written when they are not zero.
directive(call, j, os) ==
  LET n  == Len(call.format)
      ns == nanoseconds(call.ts)
  IN
  IF j = n THEN Failed(os)
  ELSE LET d  == IF At(call.format, j) # "N" THEN <<At(call.format, j)>>
                 ELSE <<>>
           jn == IF At(call.format, j) # "N" THEN j + 1 ELSE j
       IN
       IF jn = n \/ At(call.format, jn) # "N" THEN Failed(os)
       ELSE IF jn + 1 = n \/ At(call.format, jn + 1) # "]" THEN Failed(os)
       ELSE LET os1 == IF ns # 0 /\ d # <<>> THEN Insert(os, "os", d) ELSE os
                os2 == IF ns # 0
                         THEN Insert(os1, "os", setw(9, "0", Dec(ns)))
                         ELSE os1
            IN scan(call, jn + 2, jn + 2, os2)

scan(call, i, j, os) ==
  LET n   == Len(call.format)
      \* The iterations on characters that are not a '%' followed by a
      \* character only increment j: the loop moves on to the next such '%'.
      pct == {k \in j .. n - 2 : At(call.format, k) = "%"}
      jp  == IF pct = {} THEN n ELSE CHOOSE k \in pct : \A m \in pct : k <= m
  IN
  IF jp = n THEN Return(print_fragment(call, i, n, os).os)
  ELSE LET ch == At(call.format, jp + 1) IN
       IF ch = "["
         THEN IF call.width # 0 THEN Failed(os)
              ELSE LET p == print_fragment(call, i, jp, os) IN
                   IF ~p.ok THEN Return(p.os)
                   ELSE directive(call, jp + 2, p.os)
       ELSE IF call.mingw /\ ch = "e"
         THEN LET p == print_fragment(call, i, jp, os) IN
              IF ~p.ok THEN Return(p.os)
              ELSE scan(call, jp + 2, jp + 2, Insert(p.os, "tm_mday", <<>>))
       ELSE scan(call, i, jp + 2, os)

\* to_stream (os, ts, format, special, local).
to_stream_timestamp(call, os) ==
  IF call.special /\ call.ts = Timestamp(timestamp_unknown)
    THEN Return(Insert(os, "os", <<"<unknown>">>))
  ELSE IF call.special /\ call.ts = Timestamp(timestamp_nonexistent)
    THEN Return(Insert(os, "os", <<"<nonexistent>">>))
  ELSE IF call.special /\ call.ts = Timestamp(timestamp_unreal)
    THEN Return(Insert(os, "os", <<"<unreal>">>))
  ELSE IF call.host = "notime" THEN Failed(os)
  ELSE IF Len(call.format) + 1 > FmtSize THEN Failed(os)
  ELSE scan(call, 0, 0, os)

\* gmtime (&t) for t >= 0: the broken-down UTC time (tm_mday from 1,
\* tm_mon from 0, tm_year from 1900).
IsLeap(y) == y % 4 = 0 /\ (y % 100 # 0 \/ y % 400 = 0)
YearDays(y) == IF IsLeap(y) THEN 366 ELSE 365
MonthDays(y, m) ==
  IF m = 1 THEN (IF IsLeap(y) THEN 29 ELSE 28)
  ELSE IF m \in {3, 5, 8, 10} THEN 30 ELSE 31
RECURSIVE YearOf(_, _)
YearOf(days, y) ==
  IF days >= YearDays(y) THEN YearOf(days - YearDays(y), y + 1)
  ELSE [year |-> y, yday |-> days]
RECURSIVE MonthOf(_, _, _)
MonthOf(yday, y, m) ==
  IF yday >= MonthDays(y, m) THEN MonthOf(yday - MonthDays(y, m), y, m + 1)
  ELSE [mon |-> m, mday |-> yday + 1]
gmtime(t) ==
  LET secs == t % (24 * 60 * 60)
      yr   == YearOf(t \div (24 * 60 * 60), 1970)
      mo   == MonthOf(yr.yday, yr.year, 0)
  IN [tm_sec |-> secs % 60, tm_min |-> (secs \div 60) % 60,
      tm_hour |-> secs \div (60 * 60), tm_mday |-> mo.mday,
      tm_mon |-> mo.mon, tm_year |-> yr.year - 1900]

\* strftime for the conversions the duration formats use: %Y is the year
\* tm_year + 1900, %m the month tm_mon + 1, %d, %H, %M and %S are written
\* with two digits; any other character is copied.
Conversion(tm, ch) ==
  CASE ch = "Y" -> Dec(tm.tm_year + 1900)
    [] ch = "m" -> setw(2, "0", Dec(tm.tm_mon + 1))
    [] ch = "d" -> setw(2, "0", Dec(tm.tm_mday))
    [] ch = "H" -> setw(2, "0", Dec(tm.tm_hour))
    [] ch = "M" -> setw(2, "0", Dec(tm.tm_min))
    [] ch = "S" -> setw(2, "0", Dec(tm.tm_sec))
    [] OTHER    -> <<"%", ch>>
RECURSIVE strftime(_, _)
strftime(tm, fmt) ==
  IF fmt = <<>> THEN <<>>
  ELSE IF Head(fmt) = "%" /\ Len(fmt) > 1
    THEN Conversion(tm, fmt[2]) \o strftime(tm, SubSeq(fmt, 3, Len(fmt)))
  ELSE <<Head(fmt)>> \o strftime(tm, Tail(fmt))

\* (Variant of duration_format: a minute and more is shown as hours.)
duration_format_hours(t) ==
  IF t >= 365 * 24 * 60 * 60
    THEN [fmt |-> <<"%", "Y", "-", "%", "m", "-", "%", "d", " ", "%", "H",
                    ":", "%", "M", ":", "%", "S">>, unt |-> "years"]
  ELSE IF t >= 31 * 24 * 60 * 60
    THEN [fmt |-> <<"%", "m", "-", "%", "d", " ", "%", "H", ":", "%", "M",
                    ":", "%", "S">>, unt |-> "months"]
  ELSE IF t >= 24 * 60 * 60
    THEN [fmt |-> <<"%", "d", " ", "%", "H", ":", "%", "M", ":", "%", "S">>,
          unt |-> "days"]
  ELSE IF t >= 60
    THEN [fmt |-> <<"%", "H", ":", "%", "M", ":", "%", "S">>,
          unt |-> "hours"]
  ELSE IF t >= 1
    THEN [fmt |-> <<"%", "S">>, unt |-> "seconds"]
  ELSE [fmt |-> <<>>, unt |-> "sub-second"]

\* The choice of fmt and unt from t; fmt = nullptr is the empty format and
\* the unit below one second depends on ns.
duration_format(t) ==
  IF t >= 365 * 24 * 60 * 60
    THEN [fmt |-> <<"%", "Y", "-", "%", "m", "-", "%", "d", " ", "%", "H",
                    ":", "%", "M", ":", "%", "S">>, unt |-> "years"]
  ELSE IF t >= 31 * 24 * 60 * 60
    THEN [fmt |-> <<"%", "m", "-", "%", "d", " ", "%", "H", ":", "%", "M",
                    ":", "%", "S">>, unt |-> "months"]
  ELSE IF t >= 24 * 60 * 60
    THEN [fmt |-> <<"%", "d", " ", "%", "H", ":", "%", "M", ":", "%", "S">>,
          unt |-> "days"]
  ELSE IF t >= 60 * 60
    THEN [fmt |-> <<"%", "H", ":", "%", "M", ":", "%", "S">>,
          unt |-> "hours"]
  ELSE IF t >= 60
    THEN [fmt |-> <<"%", "M", ":", "%", "S">>, unt |-> "minutes"]
  ELSE IF t >= 1
    THEN [fmt |-> <<"%", "S">>, unt |-> "seconds"]
  ELSE [fmt |-> <<>>, unt |-> "sub-second"]

\* to_stream (os, d, ns).  The fragment handed to put_time is recorded as
\* the host renders it from the adjusted tm.
to_stream_duration(call, os) ==
  LET ts   == call.ts                    \* the epoch + d
      t    == to_time_t(ts)
      sel  == duration_format(t)
      unt  == IF sel.fmt # <<>> THEN sel.unt
              ELSE IF call.ns THEN "nanoseconds" ELSE "seconds"
      gt   == gmtime(t)
      tm   == [gt EXCEPT
                 !.tm_mday = IF t >= 24 * 60 * 60 THEN @ - 1 ELSE @,
                 !.tm_mon  = IF t >= 31 * 24 * 60 * 60 THEN @ - 1 ELSE @,
                 !.tm_year = IF t >= 365 * 24 * 60 * 60 THEN @ - 1970 ELSE @]
      os1  == IF sel.fmt # <<>>
                THEN put_time(os, strftime(tm, sel.fmt), call.host)
                ELSE os
      nsec == nanoseconds(ts)
      os2  == IF call.ns
                THEN IF nsec # 0
                       THEN IF sel.fmt # <<>>
                              THEN Insert(os1, "os",
                                          <<".">> \o setw(9, "0", Dec(nsec)))
                              ELSE Insert(os1, "os", Dec(nsec))
                     ELSE IF sel.fmt = <<>> THEN Insert(os1, "os", <<"0">>)
                     ELSE os1
              ELSE IF sel.fmt = <<>> THEN Insert(os1, "os", <<"0">>)
              ELSE os1
  IN
  IF sel.fmt # <<>> /\ call.host = "notime" THEN Failed(os)
  ELSE IF sel.fmt # <<>> /\ ~os1.good THEN Return(os1)
  ELSE Return(Insert(Insert(os2, "os", <<" ">>), "os", <<unt>>))

----------------------------------------------------------------------------
(* main: the initial state and the parsing of the command line.            *)

Init ==
  /\ win32 \in BOOLEAN
  /\ argv \in ArgvSet(win32)
  /\ pc = "main"
  /\ c = "none"
  /\ st = "none"
  /\ it = "none"
  /\ print = 0
  /\ print_result = FALSE
  /\ file = <<>>
  /\ read = 0
  /\ f = 0
  /\ count = 0
  /\ stack = <<>>
  /\ handles = <<>>
  /\ clock = 0
  /\ start_time = timestamp_unknown
  /\ end_time = timestamp_unknown
  /\ tree = <<>>
  /\ trace = <<>>
  /\ cout = <<>>
  /\ report = <<>>
  /\ stats = <<>>
  /\ divisors = <<>>
  /\ fatal = "none"
  /\ spins = 0
  /\ status = NoStatus
  /\ fcall = NoCall
  /\ fos = NoStream

\* throw failed (): the exception propagates to the handler of main.
Throw(cause) ==
  /\ pc' = "unwind"
  /\ fatal' = cause

\* An exception that is not failed leaves main: std::terminate ().
Terminate(cause) ==
  /\ pc' = "done"
  /\ fatal' = cause
  /\ status' = StatusAbort

\* The command and the option loop.
ParseArgs ==
  /\ pc = "main"
  /\ UNCHANGED <<fcall, fos, win32, file, read, f, count, stack, handles, clock,
                 start_time, end_time, tree, trace, cout, report, stats,
                 divisors, spins>>
  /\ IF argc(argv) = 1 \/ Command(argv) = "none"
       THEN /\ Throw("usage")
            /\ UNCHANGED <<argv, c, st, it, print, print_result, status>>
     ELSE IF Command(argv) = "avg"
       THEN /\ c' = "avg"
            /\ pc' = "avg"
            /\ UNCHANGED <<argv, st, it, print, print_result, fatal, status>>
     ELSE LET o == ParseOptions(win32, argv, 2, NoOptions) IN
          /\ c' = Command(argv)
          /\ IF o.kind = "usage"
               THEN /\ Throw("usage")
                    /\ UNCHANGED <<argv, st, it, print, print_result, status>>
             ELSE IF o.kind = "stoul"
               THEN /\ Terminate("stoul")
                    /\ UNCHANGED <<argv, st, it, print, print_result>>
             ELSE /\ pc' = Command(argv)
                  /\ argv' = SubSeq(argv, o.i, Len(argv))
                  /\ st' = o.st
                  /\ it' = o.it
                  /\ print' = o.print
                  /\ print_result' = o.print_result
                  /\ UNCHANGED <<fatal, status>>

\* avg <sum> <count>.  A division by zero is undefined: the process traps,
\* or prints some value and returns 0.
Avg ==
  /\ pc = "avg"
  /\ UNCHANGED <<fcall, fos, win32, argv, c, st, it, print, print_result, file, read, f,
                 count, stack, handles, clock, start_time, end_time, tree,
                 report, stats, spins>>
  /\ IF argc(argv) # 4
       THEN /\ Throw("usage")
            /\ UNCHANGED <<trace, cout, divisors, status>>
     ELSE IF argv[2] \notin Numerals \/ argv[3] \notin Numerals
       THEN /\ Terminate("stoul")
            /\ UNCHANGED <<trace, cout, divisors>>
     ELSE /\ divisors' = Append(divisors, stoul(argv[3]))
          /\ trace' = Append(trace, Ev("div", stoul(argv[3])))
          /\ IF stoul(argv[3]) # 0
               THEN /\ cout' = Append(cout, [result |-> stoul(argv[2]) \div stoul(argv[3])])
                    /\ pc' = "done"
                    /\ status' = 0
                    /\ UNCHANGED fatal
             ELSE \E trap \in BOOLEAN :
                    IF trap
                      THEN /\ pc' = "done"
                           /\ status' = StatusTrap
                           /\ fatal' = "divide"
                           /\ UNCHANGED cout
                      ELSE /\ \E v \in {0, stoul(argv[2])} :
                                cout' = Append(cout, [result |-> v])
                           /\ pc' = "done"
                           /\ status' = 0
                           /\ UNCHANGED fatal

----------------------------------------------------------------------------
(* The end of a run: the statistics (stat and iter share the code).        *)

\* (Variant of Statistics: the full time is reported as the time per
\* entry.)
Statistics_total(n, s, e) ==
  [entries |-> n, full |-> e - s, per |-> e - s]
\* duration d (end_time - start_time); duration de (d / count); the three
\* lines on cerr and, with -r, the result on cout.
Statistics(n, s, e) ==
  [entries |-> n, full |-> e - s, per |-> (e - s) \div n]
ResultOutput(o, n, s, e) ==
  IF print_result THEN Append(o, [result |-> (e - s) \div n]) ELSE o

----------------------------------------------------------------------------
(* cmd::stat: the flat list of paths.                                      *)

RECURSIVE SeqsUpTo(_, _)
SeqsUpTo(S, n) ==
  IF n = 0 THEN {<<>>}
  ELSE LET shorter == SeqsUpTo(S, n - 1) IN
       shorter \cup {Append(q, x) : q \in shorter, x \in S}

\* The usage check, ifstream f (p), f.exceptions (badbit), count (0) and
\* the start of the clock.
StatOpen ==
  /\ pc = "stat"
  /\ UNCHANGED <<fcall, fos, win32, argv, c, st, it, print, print_result, read, stack,
                 end_time, tree, cout, report, stats, divisors, spins, status>>
  /\ IF Len(argv) # 1 \/ st = "none"
       THEN /\ Throw("usage")
            /\ UNCHANGED <<file, f, count, handles, clock, start_time, trace>>
     ELSE \E opens \in BOOLEAN :
       IF ~opens
         THEN /\ Throw("open")
              /\ UNCHANGED <<file, f, count, handles, clock, start_time, trace>>
         ELSE /\ file' \in SeqsUpTo(Paths, MaxLines)
              /\ f' = NewHandle(handles)
              /\ handles' = Opened(handles)
              /\ count' = 0
              /\ start_time' = clock
              /\ clock' = clock + 1
              /\ trace' = trace \o <<Ev("open", NewHandle(handles)), Ev("now", clock)>>
              /\ pc' = "stat_loop"
              /\ UNCHANGED fatal

\* One iteration of the loop: getline extracts a line, entry_tm queries
\* it, ++count (not reached when entry_tm throws).
StatRead ==
  /\ pc = "stat_loop"
  /\ read < Len(file)
  /\ \E ans \in HostAnswers(st, file[read + 1]) :
       LET res == entry_tm(st, ans) IN
       /\ read' = read + 1
       /\ clock' = clock + 1
       /\ handles' = HandlesAfterQuery(handles, res)
       /\ trace' = trace \o <<Ev("getline", read + 1)>>
                          \o QueryEvents(handles, res, read + 1)
                          \o (IF res.r = "ret" THEN <<Ev("count", read + 1)>> ELSE <<>>)
       /\ IF res.r = "ret"
            THEN /\ count' = count + 1
                 /\ UNCHANGED <<pc, fatal>>
            ELSE /\ Throw("host")
                 /\ UNCHANGED count
  /\ UNCHANGED <<fcall, fos, win32, argv, c, st, it, print, print_result, file, f, stack,
                 start_time, end_time, tree, cout, report, stats, divisors,
                 spins, status>>

\* getline fails with badbit: the stream throws ios_base::failure
\* (f.exceptions (badbit)), which main does not catch.
StatReadBad ==
  /\ pc = "stat_loop"
  /\ Terminate("read")
  /\ trace' = Append(trace, Ev("getline", read + 1))
  /\ UNCHANGED <<fcall, fos, win32, argv, c, st, it, print, print_result, file, read, f,
                 count, stack, handles, clock, start_time, end_time, tree,
                 cout, report, stats, divisors, spins>>

\* getline fails before the end of the file without badbit: the loop ends,
\* end_time is taken and !f.eof () is fatal.
StatReadFail ==
  /\ pc = "stat_loop"
  /\ read < Len(file)
  /\ end_time' = clock
  /\ clock' = clock + 1
  /\ trace' = trace \o <<Ev("getline", read + 1), Ev("now", clock)>>
  /\ Throw("read")
  /\ UNCHANGED <<fcall, fos, win32, argv, c, st, it, print, print_result, file, read, f,
                 count, stack, handles, start_time, tree, cout, report, stats,
                 divisors, spins, status>>

\* getline reaches the end of the file: end_time, the count check, the
\* division, the statistics, and the stream is closed on the way out.
StatEnd ==
  /\ pc = "stat_loop"
  /\ read = Len(file)
  /\ end_time' = clock
  /\ clock' = clock + 1
  /\ IF count = 0
       THEN /\ Throw("empty")
            /\ trace' = trace \o <<Ev("getline", read + 1), Ev("now", clock)>>
            /\ UNCHANGED <<f, handles, cout, stats, divisors, status>>
       ELSE /\ divisors' = Append(divisors, count)
            /\ stats' = <<Statistics(count, start_time, clock)>>
            /\ cout' = ResultOutput(cout, count, start_time, clock)
            /\ trace' = trace \o <<Ev("getline", read + 1), Ev("now", clock),
                                    Ev("div", count), Ev("stats", count),
                                    Ev("close", f)>>
            /\ handles' = Closed(handles, f)
            /\ f' = 0
            /\ pc' = "done"
            /\ status' = 0
            /\ UNCHANGED fatal
  /\ UNCHANGED <<fcall, fos, win32, argv, c, st, it, print, print_result, file, read,
                 count, stack, start_time, tree, report, spins>>

----------------------------------------------------------------------------
(* cmd::iter: the recursive walk (the iterate lambdas).                    *)

\* entry_time et; (two value-initialised time_points).
DefaultTimes == entry_time(0, 0)

\* One activation of iterate: the directory d (0 is the root) with its path,
\* the handle h of the enumeration (0: none), what the host has returned
\* for it so far (n items, dots of them "." or ".."), and the locals of the
\* loop body for the entry at hand: its id e, dir, the enumeration's times
\* t, the queried times et and the host's answer to the query ("none"
\* before it) with the times ht the host holds then.  The locals are dead once the body calls iterate or starts
\* over, and are reset there.
Frame(d, path) ==
  [d |-> d, path |-> path, h |-> 0, n |-> 0, dots |-> 0, e |-> 0,
   dir |-> FALSE, t |-> NoTimes, et |-> DefaultTimes, host |-> "none",
   ht |-> NoTimes]

NoLocals(fr) ==
  [fr EXCEPT !.e = 0, !.dir = FALSE, !.t = NoTimes, !.et = DefaultTimes,
             !.host = "none", !.ht = NoTimes]

Top == stack[Len(stack)]
Pop(s) == SubSeq(s, 1, Len(s) - 1)
SetTop(s, fr) == [s EXCEPT ![Len(s)] = fr]

\* Where iterate starts: opendir () comes before the loop, the Find* calls
\* are made in it.
EntryPc == IF it = "opendir" THEN "opendir" ELSE "enum"

\* The times of the enumeration record (WIN32_FIND_DATA); readdir and
\* _find* give none to the program.
EnumTimes ==
  IF it \in {"native", "native_ex"}
    THEN {entry_time(x, x) : x \in HostTimes}
    ELSE {NoTimes}

\* What the host may answer to an enumeration call on the directory of fr:
\* "." and ".." come first (the root may have none), then the entries.
HostCanDot(fr)   == fr.dots = 1 \/ (fr.dots = 0 /\ fr.n = 0)
HostCanEntry(fr) == (fr.dots = 2 \/ (fr.dots = 0 /\ fr.d = 0))
                    /\ Len(tree) < MaxEntries
HostCanEnd(fr)   == fr.dots = 2 \/ (fr.dots = 0 /\ fr.d = 0)
\* The first call finds nothing: a root without any entry, or (_findfirst,
\* which maps a missing path to ENOENT too) a directory that has vanished.
HostCanFindNothing(fr) ==
  fr.n = 0 /\ ((fr.dots = 0 /\ fr.d = 0) \/ it = "posix")

\* The handle after a call that returned an item: FindFirst*/_findfirst
\* give it, later calls and readdir use the one at hand.
HandleAfterCall(hs, h)  == IF h = 0 THEN NewHandle(hs) ELSE h
HandlesAfterCall(hs, h) == IF h = 0 THEN Opened(hs) ELSE hs
CallEvents(hs, fr) ==
  IF fr.h = 0 THEN <<Ev("enum", fr.d), Ev("open", NewHandle(hs))>>
  ELSE <<Ev("enum", fr.d)>>

\* The rest of the loop body after ++count, after the query and after the
\* print.  The _find* lambda has neither query nor print.
AfterPrint(dir) == IF dir THEN "recurse" ELSE "enum"
AfterQuery(dir) == IF print # 0 THEN "print" ELSE AfterPrint(dir)
AfterCount(dir) ==
  IF it = "posix" THEN AfterPrint(dir)
  ELSE IF st # "none" THEN "query"
  ELSE AfterQuery(dir)

\* (Variant of Consistent: the access times must be equal.)
Consistent_equal(t, et) ==
  t.modification = et.modification /\ t.access = et.access

\* The cross-check of the native lambdas:
\* t.modification == et.modification && t.access <= et.access.
Consistent(t, et) ==
  t.modification = et.modification /\ t.access <= et.access

\* (Variant of Compares: the opendir lambda compares too.)
Compares_opendir == it \in {"native", "native_ex", "opendir"}

\* The lambdas that compare the two entry_time values.
Compares == it \in {"native", "native_ex"}

\* ~unique_ptr<DIR, dir_deleter> / ~auto_dir: close the handle unless it
\* is nullptr / INVALID_HANDLE_VALUE / -1.
DirDtor(hs, h) == IF h # 0 THEN Closed(hs, h) ELSE hs
DtorEvents(h) == IF h # 0 THEN <<Ev("close", h)>> ELSE <<>>

\* (Variant of HandleAfterEnd: the handle is closed but not reset.)
HandleAfterEnd_kept(h) == h

\* The end of the stream: h.reset () / FindClose (h); h = INVALID_HANDLE_VALUE.
HandleAfterEnd(h) == 0

\* The usage check, count (0), the start of the clock, iterate (p, iterate).
IterStart ==
  /\ pc = "iter"
  /\ UNCHANGED <<fcall, fos, win32, argv, c, st, it, print, print_result, file, read, f,
                 handles, end_time, tree, cout, report, stats, divisors,
                 spins, status>>
  /\ IF Len(argv) # 1 \/ it = "none"
       THEN /\ Throw("usage")
            /\ UNCHANGED <<count, stack, clock, start_time, trace>>
       ELSE /\ count' = 0
            /\ start_time' = clock
            /\ clock' = clock + 1
            /\ stack' = <<Frame(0, <<>>)>>
            /\ trace' = trace \o <<Ev("now", clock), Ev("call", 0)>>
            /\ pc' = EntryPc
            /\ UNCHANGED fatal

\* opendir (d.c_str ()) succeeds.
OpenDir ==
  /\ pc = "opendir"
  /\ stack' = SetTop(stack, [Top EXCEPT !.h = NewHandle(handles)])
  /\ handles' = Opened(handles)
  /\ clock' = clock + 1
  /\ trace' = trace \o <<Ev("opendir", Top.d), Ev("open", NewHandle(handles))>>
  /\ pc' = "enum"
  /\ UNCHANGED <<fcall, fos, win32, argv, c, st, it, print, print_result, file, read, f,
                 count, start_time, end_time, tree, cout, report, stats,
                 divisors, fatal, spins, status>>

\* opendir () fails: fatal.
OpenDirFail ==
  /\ pc = "opendir"
  /\ clock' = clock + 1
  /\ trace' = Append(trace, Ev("opendir", Top.d))
  /\ Throw("host")
  /\ UNCHANGED <<fcall, fos, win32, argv, c, st, it, print, print_result, file, read, f,
                 count, stack, handles, start_time, end_time, tree, cout,
                 report, stats, divisors, spins, status>>

\* (Variant of EnumDot: "." and ".." are counted.)
EnumDot_counted ==
  /\ pc = "enum"
  /\ HostCanDot(Top)
  /\ stack' = SetTop(stack, [NoLocals(Top) EXCEPT
                               !.h = HandleAfterCall(handles, Top.h),
                               !.n = @ + 1, !.dots = @ + 1])
  /\ handles' = HandlesAfterCall(handles, Top.h)
  /\ clock' = clock + 1
  /\ count' = count + 1
  /\ trace' = trace \o CallEvents(handles, Top)
  /\ UNCHANGED <<fcall, fos, win32, argv, pc, c, st, it, print, print_result, file, read,
                 f, start_time, end_time, tree, cout, report, stats,
                 divisors, fatal, spins, status>>

\* The enumeration call returns "." or "..": continue.
EnumDot ==
  /\ pc = "enum"
  /\ HostCanDot(Top)
  /\ stack' = SetTop(stack, [NoLocals(Top) EXCEPT
                               !.h = HandleAfterCall(handles, Top.h),
                               !.n = @ + 1, !.dots = @ + 1])
  /\ handles' = HandlesAfterCall(handles, Top.h)
  /\ clock' = clock + 1
  /\ trace' = trace \o CallEvents(handles, Top)
  /\ UNCHANGED <<fcall, fos, win32, argv, pc, c, st, it, print, print_result, file, read,
                 f, count, start_time, end_time, tree, cout, report, stats,
                 divisors, fatal, spins, status>>

\* The enumeration call returns an entry: ++count, p = d + sep + p, dir, t.
EnumEntry ==
  /\ pc = "enum"
  /\ HostCanEntry(Top)
  /\ \E dir \in BOOLEAN, t \in EnumTimes :
       LET e == Len(tree) + 1 IN
       /\ tree' = Append(tree, [parent |-> Top.d, dir |-> dir])
       /\ stack' = SetTop(stack, [NoLocals(Top) EXCEPT
                                    !.h = HandleAfterCall(handles, Top.h),
                                    !.n = @ + 1, !.e = e, !.dir = dir, !.t = t])
       /\ trace' = trace \o CallEvents(handles, Top) \o <<Ev("count", e)>>
       /\ pc' = AfterCount(dir)
  /\ count' = count + 1
  /\ handles' = HandlesAfterCall(handles, Top.h)
  /\ clock' = clock + 1
  /\ UNCHANGED <<fcall, fos, win32, argv, c, st, it, print, print_result, file, read, f,
                 start_time, end_time, cout, report, stats, divisors, fatal,
                 spins, status>>

\* The enumeration call reports the end of the stream on an open handle
\* (readdir: NULL with errno 0; FindNextFileA: ERROR_NO_MORE_FILES;
\* _findnext: ENOENT): the handle is closed, the loop left, iterate returns.
EnumEnd ==
  /\ pc = "enum"
  /\ Top.h # 0
  /\ HostCanEnd(Top)
  /\ handles' = DirDtor(Closed(handles, Top.h), HandleAfterEnd(Top.h))
  /\ trace' = trace \o <<Ev("enum", Top.d), Ev("close", Top.h)>>
                     \o DtorEvents(HandleAfterEnd(Top.h))
                     \o <<Ev("return", Top.d)>>
  /\ stack' = Pop(stack)
  /\ pc' = IF Len(stack) = 1 THEN "iter_end" ELSE "enum"
  /\ clock' = clock + 1
  /\ UNCHANGED <<fcall, fos, win32, argv, c, st, it, print, print_result, file, read, f,
                 count, start_time, end_time, tree, cout, report, stats,
                 divisors, fatal, spins, status>>

\* The first Find* call finds nothing (ERROR_FILE_NOT_FOUND, ENOENT) and
\* gives no handle: the branch does nothing and the loop calls it again.
\* The iteration is counted modulo MaxSpin + 1: it is a step of the program
\* that leaves every variable of the program as it was.
EnumSpin ==
  /\ pc = "enum"
  /\ Top.h = 0
  /\ HostCanFindNothing(Top)
  /\ spins' = (spins + 1) % (MaxSpin + 1)
  /\ UNCHANGED <<fcall, fos, win32, argv, pc, c, st, it, print, print_result, file, read,
                 f, count, stack, handles, clock, start_time, end_time, tree,
                 trace, cout, report, stats, divisors, fatal, status>>

\* The enumeration call fails with any other error: fatal.
EnumFail ==
  /\ pc = "enum"
  /\ clock' = clock + 1
  /\ trace' = Append(trace, Ev("enum", Top.d))
  /\ stack' = SetTop(stack, NoLocals(Top))
  /\ Throw("host")
  /\ UNCHANGED <<fcall, fos, win32, argv, c, st, it, print, print_result, file, read, f,
                 count, handles, start_time, end_time, tree, cout, report,
                 stats, divisors, spins, status>>

\* What the host may answer when an entry of the walk is queried: the entry
\* may have vanished or be inaccessible by then.
WalkAnswers(s) ==
  HostOk \cup {HostMissing, HostError}
         \cup (IF s = "handle" THEN {HostInfoErr} ELSE {})

\* et = entry_tm (p) returns and, in the native lambdas, the two
\* entry_time values pass the cross-check.
Requery ==
  /\ pc = "query"
  /\ \E ans \in WalkAnswers(st) :
       LET res == entry_tm(st, ans) IN
       /\ res.r = "ret"
       /\ Compares => Consistent(Top.t, res.et)
       /\ stack' = SetTop(stack, [Top EXCEPT !.et = res.et, !.host = ans.k,
                                          !.ht = ans.t])
       /\ handles' = HandlesAfterQuery(handles, res)
       /\ trace' = trace \o QueryEvents(handles, res, Top.e)
                          \o (IF Compares THEN <<Ev("compare", Top.e)>> ELSE <<>>)
  /\ pc' = AfterQuery(Top.dir)
  /\ clock' = clock + 1
  /\ UNCHANGED <<fcall, fos, win32, argv, c, st, it, print, print_result, file, read, f,
                 count, start_time, end_time, tree, cout, report, stats,
                 divisors, fatal, spins, status>>

\* (Variant of Mismatch: the mismatch is reported and the walk goes on.)
Mismatch_continues ==
  /\ pc = "query"
  /\ Compares
  /\ \E ans \in WalkAnswers(st) :
       LET res == entry_tm(st, ans) IN
       /\ res.r = "ret"
       /\ ~Consistent(Top.t, res.et)
       /\ stack' = SetTop(stack, [Top EXCEPT !.et = res.et, !.host = ans.k,
                                          !.ht = ans.t])
       /\ handles' = HandlesAfterQuery(handles, res)
       /\ trace' = trace \o QueryEvents(handles, res, Top.e)
                          \o <<Ev("compare", Top.e), Ev("mismatch", Top.e)>>
       /\ report' = <<[path |-> Append(Top.path, Top.e), sep |-> Top.dir,
                       find |-> Top.t, stat |-> res.et]>>
  /\ fatal' = "violation"
  /\ pc' = AfterQuery(Top.dir)
  /\ clock' = clock + 1
  /\ UNCHANGED <<fcall, fos, win32, argv, c, st, it, print, print_result, file, read, f,
                 count, start_time, end_time, tree, cout, stats, divisors,
                 spins, status>>

\* entry_tm (p) returns and the cross-check fails: "times mismatch for"
\* the path (with the separator for a directory), both entry_time values,
\* throw failed ().
Mismatch ==
  /\ pc = "query"
  /\ Compares
  /\ \E ans \in WalkAnswers(st) :
       LET res == entry_tm(st, ans) IN
       /\ res.r = "ret"
       /\ ~Consistent(Top.t, res.et)
       /\ stack' = SetTop(stack, [Top EXCEPT !.et = res.et, !.host = ans.k,
                                          !.ht = ans.t])
       /\ handles' = HandlesAfterQuery(handles, res)
       /\ trace' = trace \o QueryEvents(handles, res, Top.e)
                          \o <<Ev("compare", Top.e), Ev("mismatch", Top.e)>>
       /\ report' = <<[path |-> Append(Top.path, Top.e), sep |-> Top.dir,
                       find |-> Top.t, stat |-> res.et]>>
  /\ Throw("violation")
  /\ clock' = clock + 1
  /\ UNCHANGED <<fcall, fos, win32, argv, c, st, it, print, print_result, file, read, f,
                 count, start_time, end_time, tree, cout, stats, divisors,
                 spins, status>>

\* entry_tm (p) throws failed ().
RequeryFail ==
  /\ pc = "query"
  /\ \E ans \in WalkAnswers(st) :
       LET res == entry_tm(st, ans) IN
       /\ res.r = "throw"
       /\ stack' = SetTop(stack, [Top EXCEPT !.host = ans.k, !.ht = ans.t])
       /\ handles' = HandlesAfterQuery(handles, res)
       /\ trace' = trace \o QueryEvents(handles, res, Top.e)
  /\ Throw("host")
  /\ clock' = clock + 1
  /\ UNCHANGED <<fcall, fos, win32, argv, c, st, it, print, print_result, file, read, f,
                 count, start_time, end_time, tree, cout, report, stats,
                 divisors, spins, status>>

\* if (print != 0) cout << p ... << endl.
PrintEntry ==
  /\ pc = "print"
  /\ cout' = Append(cout, [path |-> Append(Top.path, Top.e), detail |-> print > 1])
  /\ trace' = Append(trace, Ev("print", Top.e))
  /\ pc' = AfterPrint(Top.dir)
  /\ UNCHANGED <<fcall, fos, win32, argv, c, st, it, print, print_result, file, read, f,
                 count, stack, handles, clock, start_time, end_time, tree,
                 report, stats, divisors, fatal, spins, status>>

\* (Variant of Recurse: the directory is queued and walked after the
\* directories already being walked.)
Recurse_deferred ==
  /\ pc = "recurse"
  /\ stack' = <<Frame(Top.e, Append(Top.path, Top.e))>>
                 \o SetTop(stack, NoLocals(Top))
  /\ trace' = Append(trace, Ev("call", Top.e))
  /\ pc' = "enum"
  /\ UNCHANGED <<fcall, fos, win32, argv, c, st, it, print, print_result, file, read, f,
                 count, handles, clock, start_time, end_time, tree, cout,
                 report, stats, divisors, fatal, spins, status>>

\* if (dir) iterate (p, iterate).
Recurse ==
  /\ pc = "recurse"
  /\ stack' = Append(SetTop(stack, NoLocals(Top)),
                     Frame(Top.e, Append(Top.path, Top.e)))
  /\ trace' = Append(trace, Ev("call", Top.e))
  /\ pc' = EntryPc
  /\ UNCHANGED <<fcall, fos, win32, argv, c, st, it, print, print_result, file, read, f,
                 count, handles, clock, start_time, end_time, tree, cout,
                 report, stats, divisors, fatal, spins, status>>

\* (Variant of IterEnd: no count check before the statistics.)
IterEnd_unchecked ==
  /\ pc = "iter_end"
  /\ end_time' = clock
  /\ clock' = clock + 1
  /\ divisors' = Append(divisors, count)
  /\ stats' = <<[entries |-> count, full |-> clock - start_time, per |-> 0]>>
  /\ trace' = trace \o <<Ev("now", clock), Ev("div", count), Ev("stats", count)>>
  /\ pc' = "done"
  /\ status' = 0
  /\ UNCHANGED <<fcall, fos, win32, argv, c, st, it, print, print_result, file, read, f,
                 count, stack, handles, start_time, tree, cout, report,
                 fatal, spins>>

\* After the walk: end_time, the count check, the division, the statistics.
IterEnd ==
  /\ pc = "iter_end"
  /\ end_time' = clock
  /\ clock' = clock + 1
  /\ IF count = 0
       THEN /\ Throw("empty")
            /\ trace' = Append(trace, Ev("now", clock))
            /\ UNCHANGED <<cout, stats, divisors, status>>
       ELSE /\ divisors' = Append(divisors, count)
            /\ stats' = <<Statistics(count, start_time, clock)>>
            /\ cout' = ResultOutput(cout, count, start_time, clock)
            /\ trace' = trace \o <<Ev("now", clock), Ev("div", count),
                                    Ev("stats", count)>>
            /\ pc' = "done"
            /\ status' = 0
            /\ UNCHANGED fatal
  /\ UNCHANGED <<fcall, fos, win32, argv, c, st, it, print, print_result, file, read, f,
                 count, stack, handles, start_time, tree, report, spins>>

----------------------------------------------------------------------------
(* failed propagates: the activations of iterate are left innermost first, *)
(* then the block of cmd::stat, then the handler returns 1.                *)

\* An activation of iterate is left by the exception: its destructor runs.
Unwind ==
  /\ pc = "unwind"
  /\ stack # <<>>
  /\ handles' = DirDtor(handles, Top.h)
  /\ trace' = trace \o DtorEvents(Top.h)
  /\ stack' = Pop(stack)
  /\ UNCHANGED <<fcall, fos, win32, argv, pc, c, st, it, print, print_result, file, read,
                 f, count, clock, start_time, end_time, tree, cout, report,
                 stats, divisors, fatal, spins, status>>

\* ~ifstream closes the list file.
UnwindFile ==
  /\ pc = "unwind"
  /\ stack = <<>>
  /\ f # 0
  /\ handles' = Closed(handles, f)
  /\ trace' = Append(trace, Ev("close", f))
  /\ f' = 0
  /\ UNCHANGED <<fcall, fos, win32, argv, pc, c, st, it, print, print_result, file, read,
                 count, stack, clock, start_time, end_time, tree, cout,
                 report, stats, divisors, fatal, spins, status>>

\* catch (const failed&) {return 1;}
Catch ==
  /\ pc = "unwind"
  /\ stack = <<>>
  /\ f = 0
  /\ pc' = "done"
  /\ status' = 1
  /\ UNCHANGED <<fcall, fos, win32, argv, c, st, it, print, print_result, file, read, f,
                 count, stack, handles, clock, start_time, end_time, tree,
                 trace, cout, report, stats, divisors, fatal, spins>>

----------------------------------------------------------------------------

Next ==
  \/ ParseArgs
  \/ Avg
  \/ StatOpen
  \/ StatRead
  \/ StatReadBad
  \/ StatReadFail
  \/ StatEnd
  \/ IterStart
  \/ OpenDir
  \/ OpenDirFail
  \/ EnumDot
  \/ EnumEntry
  \/ EnumEnd
  \/ EnumSpin
  \/ EnumFail
  \/ Requery
  \/ Mismatch
  \/ RequeryFail
  \/ PrintEntry
  \/ Recurse
  \/ IterEnd
  \/ Unwind
  \/ UnwindFile
  \/ Catch

Spec == Init /\ [][Next]_vars

\* The program is one thread that is never held up: as long as it has a
\* step to take it takes one.
FairSpec == Spec /\ WF_vars(Next)

----------------------------------------------------------------------------
(* The formatters on their own: one call of to_stream with arguments drawn *)
(* from the sets below.                                                    *)

MaxParts == 3   \* fragments a format string is put together from

\* The fragments format strings are put together from, and the strings.
Fragments ==
  {<<"%", "[", ".", "N", "]">>, <<"%", "[", "N", "]">>, <<"%", "%">>,
   <<"%">>, <<"S">>, <<"%", "[">>, <<"N">>, <<"]">>, <<"[", "N", "]">>,
   <<"%", "e">>, <<".">>}
RECURSIVE Joined(_)
Joined(n) ==
  IF n = 0 THEN {<<>>}
  ELSE LET shorter == Joined(n - 1) IN
       shorter \cup {q \o x : q \in shorter, x \in Fragments}
LongFormats ==
  {[k \in 1 .. FmtSize - 1 |-> "S"], [k \in 1 .. FmtSize |-> "S"]}
Formats == Joined(MaxParts) \cup LongFormats

\* The time points: after the epoch with and without nanoseconds, before
\* the epoch, and the special values unknown and nonexistent.
TimePoints ==
  {time_point(5, 0), time_point(5, 7), time_point(5, 500000000),
   time_point(0 - 1, 500000000),
   Timestamp(timestamp_unknown), Timestamp(timestamp_nonexistent)}

\* special, local, the width of os, the host and the build.
Envs ==
  {<<TRUE, TRUE, 0, "ok", FALSE>>, <<FALSE, FALSE, 0, "ok", FALSE>>,
   <<FALSE, FALSE, 5, "ok", FALSE>>, <<TRUE, TRUE, 0, "ok", TRUE>>,
   <<FALSE, FALSE, 0, "badput", FALSE>>, <<FALSE, TRUE, 0, "notime", FALSE>>}

TimestampCalls ==
  {Call("timestamp", ts, fm, e[1], e[2], FALSE, e[3], e[4], e[5]) :
     ts \in TimePoints, fm \in Formats, e \in Envs}

\* The durations: around every threshold, with and without nanoseconds.
Seconds ==
  {0, 1, 59, 60, 90, 60 * 60 - 1, 60 * 60, 24 * 60 * 60 - 1, 24 * 60 * 60,
   31 * 24 * 60 * 60 - 1, 31 * 24 * 60 * 60, 365 * 24 * 60 * 60 - 1,
   365 * 24 * 60 * 60, 400 * 24 * 60 * 60 + 90}
Durations ==
  {time_point(sec, nsec) : sec \in Seconds, nsec \in {0, 7, 500000000}}
    \cup {time_point(0 - 90, 0)}
DurationCalls ==
  {Call("duration", d, <<>>, FALSE, FALSE, ns, 0, host, FALSE) :
     d \in Durations, ns \in BOOLEAN, host \in {"ok", "notime", "badput"}}

InitFormat ==
  /\ fcall \in TimestampCalls \cup DurationCalls
  /\ fos = NoStream
  /\ pc = "to_stream"
  /\ win32 = FALSE
  /\ argv = <<>>
  /\ c = "none"
  /\ st = "none"
  /\ it = "none"
  /\ print = 0
  /\ print_result = FALSE
  /\ file = <<>>
  /\ read = 0
  /\ f = 0
  /\ count = 0
  /\ stack = <<>>
  /\ handles = <<>>
  /\ clock = 0
  /\ start_time = timestamp_unknown
  /\ end_time = timestamp_unknown
  /\ tree = <<>>
  /\ trace = <<>>
  /\ cout = <<>>
  /\ report = <<>>
  /\ stats = <<>>
  /\ divisors = <<>>
  /\ fatal = "none"
  /\ spins = 0
  /\ status = NoStatus

\* The call returns or throws failed.
Called(res) ==
  /\ fos' = res.os
  /\ pc' = IF res.r = "ret" THEN "returned" ELSE "unwind"
  /\ fatal' = IF res.r = "ret" THEN fatal ELSE "format"
  /\ UNCHANGED <<fcall, win32, argv, c, st, it, print, print_result, file,
                 read, f, count, stack, handles, clock, start_time, end_time,
                 tree, trace, cout, report, stats, divisors, spins, status>>

FormatTimestamp ==
  /\ pc = "to_stream"
  /\ fcall.fn = "timestamp"
  /\ Called(to_stream_timestamp(fcall, fos))

FormatDuration ==
  /\ pc = "to_stream"
  /\ fcall.fn = "duration"
  /\ Called(to_stream_duration(fcall, fos))

NextFormat ==
  \/ FormatTimestamp
  \/ FormatDuration

SpecFormat == InitFormat /\ [][NextFormat]_vars

----------------------------------------------------------------------------
(* Properties of the program.                                              *)

Has(op, x)   == \E i \in DOMAIN trace : trace[i] = Ev(op, x)
Times(op, x) == Cardinality({i \in DOMAIN trace : trace[i] = Ev(op, x)})
Entries      == 1 .. Len(tree)
Nonexistent  == entry_time(timestamp_nonexistent, timestamp_nonexistent)

\* The walk has moved past entry e: a step that follows the query of e in
\* the loop body was taken after e was counted.
Passed(e) ==
  \E i \in DOMAIN trace :
    /\ trace[i] = Ev("count", e)
    /\ \E j \in DOMAIN trace :
         j > i /\ trace[j].op \in {"print", "call", "enum", "return", "now"}

\* C1: in the native and native_ex walks with a query mechanism selected,
\* an entry whose enumeration times A and re-queried times B satisfy
\* A.modification = B.modification and A.access <= B.access lets the walk
\* go on with no report; any other pair makes the run fail with the
\* mismatch report of exactly that pair.
C1_CrossCheckRule ==
  /\ (c = "iter" /\ it \in {"native", "native_ex"} /\ stack # <<>>
        /\ Top.host = "ok") =>
       IF Top.t.modification = Top.et.modification
          /\ Top.t.access <= Top.et.access
         THEN /\ fatal = "none"
              /\ report = <<>>
              /\ pc \in {"enum", "print", "recurse"}
         ELSE /\ fatal = "violation"
              /\ pc = "unwind"
              /\ report # <<>>
              /\ report[1].find = Top.t
              /\ report[1].stat = Top.et
  /\ report # <<>> =>
       ~(report[1].find.modification = report[1].stat.modification
         /\ report[1].find.access <= report[1].stat.access)

\* C1 witness: the native_ex walk goes on past an entry whose re-queried
\* access time is later than the enumeration's.
C1_Witness ==
  /\ c = "iter" /\ it = "native_ex" /\ stack # <<>>
  /\ Top.host = "ok"
  /\ Top.t.modification = Top.et.modification
  /\ Top.t.access < Top.et.access
  /\ pc = "enum"
  /\ fatal = "none"

\* C2 (as claimed): the query of a path the host reports missing never
\* fails the run and returns {nonexistent, nonexistent}, with every
\* mechanism; a walk goes on past an entry that vanished before the query.
C2_MissingIsNotFatal ==
  /\ (c = "stat" /\ pc = "unwind" /\ fatal = "host") => file[read] # "missing"
  /\ (c = "iter" /\ stack # <<>> /\ Top.host = "missing") =>
       fatal = "none" /\ Top.et = Nonexistent

C4_CountState ==
  /\ pc = "main" => count = 0
  /\ c = "iter" =>
       /\ count = Len(tree)
       /\ \A e \in Entries : Times("count", e) = 1
       /\ Cardinality({i \in DOMAIN trace : trace[i].op = "count"}) = count
       /\ (pc = "done" /\ status = 0) =>
            stats # <<>> /\ stats[1].entries = Len(tree)
C4_EntryCount == []C4_CountState /\ [][count' >= count]_vars

\* C4 witness: the walk of root/{a, sub/{b}} with a query mechanism has
\* ended with status 0 and count 3.
C4_Witness ==
  /\ c = "iter" /\ pc = "done" /\ status = 0 /\ st # "none"
  /\ count = 3
  /\ tree = <<[parent |-> 0, dir |-> FALSE], [parent |-> 0, dir |-> TRUE],
              [parent |-> 2, dir |-> FALSE]>>

\* C5 (as claimed): a stat run over a list of existing and missing paths
\* that is read to its end ends with status 0 and count = the number of
\* lines, each line queried once, in order.
C5_EveryLineCounted ==
  (c = "stat" /\ pc = "done" /\ start_time # timestamp_unknown
     /\ fatal # "read" /\ file # <<>>
     /\ \A i \in DOMAIN file : file[i] \in {"exists", "missing"}) =>
    /\ status = 0
    /\ stats # <<>> /\ stats[1].entries = Len(file)
    /\ \A i \in DOMAIN file : Times("query", i) = 1
    /\ \A i, j \in DOMAIN trace :
         (i < j /\ trace[i].op = "query" /\ trace[j].op = "query") =>
           trace[i].x < trace[j].x

\* C6 (as claimed): a run ends with status 0 or 1, 1 exactly when a fatal
\* condition occurred, and statistics or a result are written only by
\* runs that end with status 0.
C6_ExitStatus ==
  pc = "done" =>
    /\ status \in {0, 1}
    /\ status = 1 <=> fatal # "none"
    /\ (stats # <<>> \/ \E i \in DOMAIN cout : "result" \in DOMAIN cout[i])
         => status = 0

RECURSIVE PathTo(_)
PathTo(e) == IF e = 0 THEN <<>> ELSE Append(PathTo(tree[e].parent), e)

\* C8: once the cross-check has failed for an entry, only the handles of
\* the walk are closed before the run ends with status 1: no enumeration
\* call, query, count, print or call of iterate follows, the entry is not
\* descended into, and the report holds the path of the entry, the
\* separator exactly for a directory, and the two entry_time values.
C8_AfterMismatch ==
  fatal = "violation" =>
    /\ pc \in {"unwind", "done"}
    /\ pc = "done" => status = 1
    /\ stats = <<>>
    /\ Len(cout) = Cardinality({i \in DOMAIN trace : trace[i].op = "print"})
    /\ \E i \in DOMAIN trace :
         /\ trace[i].op = "mismatch"
         /\ \A j \in DOMAIN trace : j > i => trace[j].op = "close"
         /\ LET e == trace[i].x IN
            /\ e = count
            /\ ~Has("call", e)
            /\ ~Has("print", e)
            /\ report # <<>>
            /\ report[1].path = PathTo(e)
            /\ report[1].sep = tree[e].dir
            /\ \/ report[1].find.modification # report[1].stat.modification
               \/ report[1].find.access > report[1].stat.access
C8_AbortOnViolation ==
  /\ []C8_AfterMismatch
  /\ [][fatal = "violation" =>
          /\ count' = count /\ cout' = cout /\ tree' = tree
          /\ clock' = clock /\ report' = report /\ fatal' = fatal
          /\ Len(stack') <= Len(stack)]_vars

\* C8 witness: the run has ended after a mismatch on a directory inside a
\* subdirectory.
C8_Witness ==
  /\ fatal = "violation" /\ pc = "done"
  /\ report # <<>>
  /\ report[1].sep
  /\ Len(report[1].path) = 2

\* The position of the count of entry e, and the entries above e.
CountedAt(e) == CHOOSE i \in DOMAIN trace : trace[i] = Ev("count", e)
RECURSIVE Ancestors(_)
Ancestors(e) ==
  IF tree[e].parent = 0 THEN {}
  ELSE {tree[e].parent} \cup Ancestors(tree[e].parent)

HeldHandles ==
  ({stack[i].h : i \in DOMAIN stack} \cup {f}) \ {0}

\* C10: no handle is closed twice; the handles that are open are those of
\* the live scopes; once the exit status is 0 or 1 every handle opened has
\* been closed (exactly once).
C10_HandlesClosedOnce ==
  /\ \A h \in DOMAIN handles : handles[h] <= 1
  /\ OpenHandles = HeldHandles
  /\ status \in {0, 1} => \A h \in DOMAIN handles : handles[h] = 1

\* C10 witness: a run that opened three handles has ended with status 1
\* after a mismatch two directories below the root.
C10_Witness ==
  /\ pc = "done" /\ status = 1 /\ fatal = "violation"
  /\ Len(handles) >= 3
  /\ report # <<>> /\ Len(report[1].path) = 3

\* The positions of the clock readings in trace, and the number of them
\* that precede position i.
Nows == {i \in DOMAIN trace : trace[i].op = "now"}
NowsBefore(i) == Cardinality({j \in Nows : j < i})

\* C11: in a stat or iter run the clock is read at most twice; the list
\* file is opened before the first reading; every getline, query, opendir
\* and enumeration call lies between the first reading and the second;
\* the end-of-file and count checks and the statistics come after the
\* second; start_time and end_time are the two readings; a run that ends
\* with status 0 reports entries = count, full = end_time - start_time and
\* per = full / count (and with -r writes per to cout).
C11_TimingWindow ==
  c \in {"stat", "iter"} =>
    /\ Cardinality(Nows) <= 2
    /\ \A i \in DOMAIN trace :
         /\ trace[i].op \in {"getline", "query", "opendir", "enum", "compare",
                             "count", "call", "print"} => NowsBefore(i) = 1
         /\ trace[i].op \in {"div", "stats"} => NowsBefore(i) = 2
    /\ (c = "stat" /\ Nows # {}) => trace[1] = Ev("open", 1) /\ 2 \in Nows
    /\ (c = "iter" /\ Nows # {}) => 1 \in Nows
    /\ start_time # timestamp_unknown <=> Nows # {}
    /\ end_time # timestamp_unknown <=> Cardinality(Nows) = 2
    /\ \A i \in Nows :
         trace[i].x = (IF NowsBefore(i) = 0 THEN start_time ELSE end_time)
    /\ (fatal = "empty" \/ (fatal = "read" /\ status # StatusAbort)) =>
         Cardinality(Nows) = 2
    /\ (pc = "done" /\ status = 0) =>
         /\ Cardinality(Nows) = 2
         /\ stats = <<[entries |-> count, full |-> end_time - start_time,
                       per |-> (end_time - start_time) \div count]>>
         /\ print_result =>
              /\ cout # <<>>
              /\ "result" \in DOMAIN cout[Len(cout)]
              /\ cout[Len(cout)].result = (end_time - start_time) \div count

\* C11 witness: a stat run over two lines with -r has ended with status 0,
\* the time per entry smaller than the full time.
C11_Witness ==
  /\ c = "stat" /\ pc = "done" /\ status = 0 /\ print_result
  /\ count = 2
  /\ stats # <<>> /\ stats[1].per < stats[1].full
  /\ cout # <<>>

\* The grammar of a format string, from position p: a '%' with the
\* character after it is a pair; the pair "%[" opens a directive, which is
\* "%[N]" or "%[<d>N]" with one character d other than 'N', and is
\* malformed otherwise (nothing after it is looked at); every other pair
\* and every other character is text.
Text(chars) == [k |-> "text", v |-> chars]
Directive(d) == [k |-> "directive", v |-> d]
Malformed == [k |-> "malformed", v |-> <<>>]
RECURSIVE Tokens(_, _)
Tokens(fm, p) ==
  LET n   == Len(fm)
      pct == {k \in p .. n - 1 : fm[k] = "%"}
  IN
  IF pct = {} THEN IF p > n THEN <<>> ELSE <<Text(SubSeq(fm, p, n))>>
  ELSE LET k   == CHOOSE x \in pct : \A y \in pct : x <= y
           pre == IF k > p THEN <<Text(SubSeq(fm, p, k - 1))>> ELSE <<>>
       IN
       IF fm[k + 1] # "[" THEN pre \o <<Text(<<fm[k], fm[k + 1]>>)>>
                                   \o Tokens(fm, k + 2)
       ELSE IF k + 3 <= n /\ fm[k + 2] = "N" /\ fm[k + 3] = "]"
         THEN pre \o <<Directive(<<>>)>> \o Tokens(fm, k + 4)
       ELSE IF k + 4 <= n /\ fm[k + 2] # "N" /\ fm[k + 3] = "N"
               /\ fm[k + 4] = "]"
         THEN pre \o <<Directive(<<fm[k + 2]>>)>> \o Tokens(fm, k + 5)
       ELSE pre \o <<Malformed>>

FormatTokens == Tokens(fcall.format, 1)
HasToken(t) == \E k \in DOMAIN FormatTokens : FormatTokens[k] = t

\* r as exactly nine decimal digits.
NineDigits(r) == [k \in 1 .. 9 |-> Digit((r \div 10^(9 - k)) % 10)]

\* The output the grammar calls for: every maximal run of text is one
\* fragment for the host formatter, every directive is its separator and
\* the nine digits of r when r is not 0, and nothing when r is 0.  own
\* holds the pairs the formatter renders itself.
Fragment(chunk) ==
  IF chunk = <<>> THEN <<>> ELSE <<[k |-> "put_time", v |-> chunk]>>
RECURSIVE Expected(_, _, _, _)
Expected(toks, chunk, r, own) ==
  IF toks = <<>> THEN Fragment(chunk)
  ELSE LET t == Head(toks) IN
       IF t.k = "text" /\ t.v \in own
         THEN Fragment(chunk) \o <<[k |-> "tm_mday", v |-> <<>>]>>
                \o Expected(Tail(toks), <<>>, r, own)
       ELSE IF t.k = "text" THEN Expected(Tail(toks), chunk \o t.v, r, own)
       ELSE Fragment(chunk)
              \o (IF r # 0 /\ t.v # <<>> THEN <<[k |-> "os", v |-> t.v]>>
                  ELSE <<>>)
              \o (IF r # 0 THEN <<[k |-> "os", v |-> NineDigits(r)]>>
                  ELSE <<>>)
              \o Expected(Tail(toks), <<>>, r, own)

OwnPairs == IF fcall.mingw THEN {<<"%", "e">>} ELSE {}
Sentinels ==
  {Timestamp(timestamp_unknown), Timestamp(timestamp_nonexistent),
   Timestamp(timestamp_unreal)}

\* C12 (as claimed): a call of the timestamp formatter that returns with
\* the stream good, for a format with the directive %[.N] and a time point
\* that is not a special value, has written exactly what the grammar calls
\* for with r the nanoseconds of the time point above its whole seconds:
\* '.' and r as nine digits at the directive when r # 0, nothing when
\* r = 0, the text around it as it is.
C12_FractionDirective ==
  (fcall.fn = "timestamp" /\ pc = "returned" /\ fos.good
     /\ fcall.ts \notin Sentinels /\ HasToken(Directive(<<".">>))) =>
    fos.out = Expected(FormatTokens, <<>>, fcall.ts.nsec, OwnPairs)

\* The characters of the fragments handed to the host formatter, in order,
\* and the text of a format string outside its directives.
RECURSIVE Handed(_)
Handed(out) ==
  IF out = <<>> THEN <<>>
  ELSE (IF Head(out).k = "put_time" THEN Head(out).v ELSE <<>>)
         \o Handed(Tail(out))
RECURSIVE Outside(_)
Outside(toks) ==
  IF toks = <<>> THEN <<>>
  ELSE (IF Head(toks).k = "text" THEN Head(toks).v ELSE <<>>)
         \o Outside(Tail(toks))
NotOwn(item) == item.k # "os"

\* The call goes on to the format string: it is not answered with the
\* name of a special value.
Scanned == ~(fcall.special /\ fcall.ts \in Sentinels)
OpensDirective ==
  \E k \in DOMAIN FormatTokens : FormatTokens[k].k \in {"directive", "malformed"}

RECURSIVE Written(_)
Written(out) ==
  IF out = <<>> THEN <<>> ELSE Head(out).v \o Written(Tail(out))

\* The layout of t whole seconds in each unit: seconds within the minute,
\* minutes, hours, whole days, and from 31 days on the whole months and
\* days of a year of 365 days, then the whole years.
Day == 24 * 60 * 60
TwoDigits(x) == <<Digit(x \div 10), Digit(x % 10)>>
ClockOf(t) ==
  TwoDigits((t % Day) \div 3600) \o <<":">> \o TwoDigits((t % 3600) \div 60)
    \o <<":">> \o TwoDigits(t % 60)
MonthStarts == <<0, 31, 59, 90, 120, 151, 181, 212, 243, 273, 304, 334>>
WholeMonths(yd) ==
  Cardinality({m \in DOMAIN MonthStarts : MonthStarts[m] <= yd}) - 1
MonthsAndDays(t) ==
  LET yd == (t \div Day) % 365
      m  == WholeMonths(yd)
  IN TwoDigits(m) \o <<"-">> \o TwoDigits(yd - MonthStarts[m + 1])
UnitOf(t) ==
  IF t >= 365 * Day THEN "years"
  ELSE IF t >= 31 * Day THEN "months"
  ELSE IF t >= Day THEN "days"
  ELSE IF t >= 3600 THEN "hours"
  ELSE IF t >= 60 THEN "minutes"
  ELSE IF t >= 1 THEN "seconds"
  ELSE "sub-second"
LayoutOf(t) ==
  CASE UnitOf(t) = "years" ->
         Dec(t \div (365 * Day)) \o <<"-">> \o MonthsAndDays(t) \o <<" ">>
           \o ClockOf(t)
    [] UnitOf(t) = "months" -> MonthsAndDays(t) \o <<" ">> \o ClockOf(t)
    [] UnitOf(t) = "days" -> TwoDigits(t \div Day) \o <<" ">> \o ClockOf(t)
    [] UnitOf(t) = "hours" -> ClockOf(t)
    [] UnitOf(t) = "minutes" ->
         TwoDigits(t \div 60) \o <<":">> \o TwoDigits(t % 60)
    [] UnitOf(t) = "seconds" -> TwoDigits(t)
    [] OTHER -> <<>>

\* C14: a call of the duration formatter that returns with the stream good
\* has written the layout of the first unit whose threshold t reaches
\* (365 days, 31 days, 1 day, 1 hour, 1 minute, 1 second, else below one
\* second), then, when nanoseconds are asked for and are not 0, a decimal
\* point and the nine digits (below one second the bare count, and "0"
\* when there is nothing to show), then a space and the unit; a decimal
\* point is written only when nanoseconds are asked for and not 0; 60 s to
\* 3599 s without nanoseconds is "MM:SS minutes".
C14_DurationLayout ==
  (fcall.fn = "duration" /\ pc = "returned" /\ fos.good) =>
    LET t    == fcall.ts.sec
        r    == fcall.ts.nsec
        text == Written(fos.out)
        frac == IF t >= 1
                  THEN IF fcall.ns /\ r # 0 THEN <<".">> \o NineDigits(r)
                       ELSE <<>>
                ELSE IF fcall.ns /\ r # 0 THEN Dec(r) ELSE <<"0">>
        unit == IF t >= 1 THEN UnitOf(t)
                ELSE IF fcall.ns THEN "nanoseconds" ELSE "seconds"
    IN
    /\ text = LayoutOf(t) \o frac \o <<" ", unit>>
    /\ (\E k \in DOMAIN text : text[k] = ".") => fcall.ns /\ r # 0
    /\ (t >= 60 /\ t < 3600 /\ r = 0) =>
         text = <<Digit(t \div 600), Digit((t \div 60) % 10), ":",
                  Digit((t % 60) \div 10), Digit(t % 10), " ", "minutes">>

\* C14 witness: 90 s without nanoseconds, asked for with nanoseconds, has
\* been written as "01:30 minutes".
C14_Witness ==
  /\ fcall.fn = "duration" /\ pc = "returned" /\ fcall.ns
  /\ fcall.ts = time_point(90, 0)
  /\ Written(fos.out) = <<"0", "1", ":", "3", "0", " ", "minutes">>

\* C15: every iter run reaches its end, with success or with a fatal error:
\* each loop of enumeration calls is left once the host reports the end of
\* the stream or that nothing was found, the first call on a directory
\* included.
C15_IterTerminates == (c = "iter") ~> (pc = "done")

\* C16: the query of an entry of the walk, when it returns, returns
\* {nonexistent, nonexistent} only when the host reports the entry missing; for an entry
\* that exists it returns the times the host holds, with every mechanism,
\* so an entry whose times are still those of the enumeration never fails
\* the cross-check.
C16_QueryReturnsHostTimes ==
  (c = "iter" /\ stack # <<>> /\ Top.host # "none") =>
    /\ (fatal # "host" /\ Top.et = Nonexistent) => Top.host = "missing"
    /\ Top.host = "ok" => Top.et = Top.ht
    /\ (Top.host = "ok" /\ Top.ht = Top.t) => fatal # "violation"

\* C17: no division by a count has the divisor 0: stat and iter are fatal
\* before they divide when count is 0, and avg <sum> <count> with the count
\* 0 does not divide either but ends with a fatal condition and the exit
\* status 1.
C17_NonZeroDivisors ==
  /\ \A k \in DOMAIN divisors : divisors[k] # 0
  /\ (c = "avg" /\ pc = "done" /\ argc(argv) = 4 /\ argv[2] \in Numerals
        /\ argv[3] \in Numerals /\ stoul(argv[3]) = 0) =>
       (fatal # "none" /\ status = 1)

====
